---- MODULE Spec2Model ----
(***************************************************************************)
(* MooseDetector: the single-slot frame exchange (FramePipeline.update /   *)
(* get_latest / get_stats, src/src/moosedetector/pipeline.py), the camera  *)
(* session (ThermalCamera, src/src/moosedetector/thermalcamera.py) and the *)
(* orchestration of the two threads (main, src/src/moosedetector/app.py).  *)
(*                                                                         *)
(* Three threads: "sdk" (the vendor SDK's callback thread, the producer),  *)
(* "proc" (the processing thread, the consumer) and "main".                *)
(*                                                                         *)
(* Two specifications share the pipeline's actions:                        *)
(*   ExchangeSpec  the FramePipeline object driven through its public      *)
(*                 methods by one producer, one consumer and the stats     *)
(*                 readers, in any order and with any timeout;             *)
(*   Spec          the application: main(), processing_loop and the        *)
(*                 ThermalCamera callbacks.                                *)
(***************************************************************************)
EXTENDS Integers, FiniteSets, Sequences, TLC

\* Number of frames the SDK delivers in a run.
MaxFrames == 3

\* Number of connect events (session handles) in a run.
MaxConnects == 2

\* get_latest(timeout=0.5): the default wait, in units of 250 ms.
DefaultTimeout == 2

\* self._frame = None: the empty slot; frames are numbered from 1.
None == 0

Frames == 1..MaxFrames

Handles == 1..MaxConnects

Threads == {"sdk", "proc", "main"}

\* get_stats is called by main (app.py:78, 101) and by visualize on the
\* processing thread (pipeline.py:198).
StatsCallers == {"proc", "main"}

\* The timeouts a caller of get_latest passes: none at all, or the default.
Timeouts == {0, DefaultTimeout}

VARIABLES
  pc,               \* pc[t]: where thread t is
  lock,             \* self._lock: "free" or the thread holding it
  frame,            \* self._frame
  frame_available,  \* self._frame_available (threading.Event flag)
  frames_dropped,   \* self._frames_dropped
  frames_received,  \* self._frames_received
  arg,              \* update's parameter `frame` of the call in progress
  nextFrame,        \* number of the next frame the producer hands over
  takeTimeout,      \* get_latest's parameter `timeout` of the call in progress
  waited,           \* time spent so far in self._frame_available.wait
  taken,            \* get_latest's return value
  stats,            \* stats[t]: the dict get_stats builds for caller t
  \* history variables (written, never read by the program)
  lastPut,          \* frame of the most recent completed update
  lastTaken,        \* frame most recently returned by get_latest
  takes,            \* number of get_latest calls that returned a frame
  takeCalled,       \* get_latest has been called at least once
  callPending,      \* at the call of get_latest: a put frame was not yet taken
  callRecv,         \* frames_received at the call of get_latest
  wakeRecv,         \* frames_received when wait() returned True
  \* the camera session and the application
  manager,          \* self._manager: "none", "live" or "destroyed"
  camera,           \* self._camera: None or a session handle
  session,          \* session[h]: the capture session of handle h
  device,           \* the handle of the device the SDK has connected, or None
  nextHandle,       \* the handle the next connect event carries
  evCamera,         \* _on_event's parameter `camera` of the call in progress
  sdkRaised,        \* an exception left a callback into the SDK's thread
  stop_event,       \* stop_event (threading.Event flag)
  interrupted,      \* main is in its KeyboardInterrupt handler
  warned,           \* "Warning: Processing thread did not stop cleanly" printed
  \* history of the resources and of the shutdown (written, never read)
  sessionStops,     \* sessionStops[h]: capture_session_stop() calls on handle h
  destroys,         \* number of self._manager.destroy() calls
  stopCalls,        \* number of ThermalCamera.stop() calls that have returned
  cleanups,         \* number of pipeline.cleanup() calls
  shutdownLog       \* the steps of main's shutdown path, in the order they ran

pipeVars == <<lock, frame, frame_available, frames_dropped, frames_received>>

prodVars == <<arg, nextFrame>>

takeVars == <<takeTimeout, waited, taken>>

histVars == <<lastPut, lastTaken, takes, takeCalled, callPending, callRecv, wakeRecv>>

camVars == <<manager, camera, session, device, nextHandle, evCamera, sdkRaised>>

mainVars == <<stop_event, interrupted, warned>>

logVars == <<sessionStops, destroys, stopCalls, cleanups, shutdownLog>>

appVars == <<camVars, mainVars, logVars>>

vars == <<pc, pipeVars, prodVars, takeVars, stats, histVars, appVars>>

Goto(t, l) == pc' = [pc EXCEPT ![t] = l]

Max(a, b) == IF a >= b THEN a ELSE b

\* A frame was put and no get_latest has returned it yet.
Pending == lastPut # None /\ lastPut # lastTaken

\* The locals of a get_latest call, forgotten once its caller has the result.
TakeForgotten ==
  /\ takeTimeout' = 0
  /\ waited' = 0
  /\ callPending' = FALSE
  /\ callRecv' = 0
  /\ wakeRecv' = 0

(***************************************************************************)
(* FramePipeline.__init__                                                  *)
(***************************************************************************)
\* The value of stats[t] while thread t holds no dict of get_stats.
StatsZero == [frames_received |-> 0, frames_dropped |-> 0,
              drop_rate |-> [num |-> 0, den |-> 1]]

PipelineInit ==
  /\ lock = "free"
  /\ frame = None
  /\ frame_available = FALSE
  /\ frames_dropped = 0
  /\ frames_received = 0
  /\ arg = None
  /\ nextFrame = 1
  /\ takeTimeout = 0
  /\ waited = 0
  /\ taken = None
  /\ stats = [t \in StatsCallers |-> StatsZero]
  /\ lastPut = None
  /\ lastTaken = None
  /\ takes = 0
  /\ takeCalled = FALSE
  /\ callPending = FALSE
  /\ callRecv = 0
  /\ wakeRecv = 0

(***************************************************************************)
(* FramePipeline.update(frame), on the producer thread                     *)
(***************************************************************************)
\* The call: update(f) with the next frame.
UpdateCall ==
  /\ nextFrame <= MaxFrames
  /\ arg' = nextFrame
  /\ nextFrame' = nextFrame + 1
  /\ Goto("sdk", "upd_lock")

\* with self._lock:
UpdateAcquire ==
  /\ pc["sdk"] = "upd_lock"
  /\ lock = "free"
  /\ lock' = "sdk"
  /\ Goto("sdk", "upd_body")
  /\ UNCHANGED <<frame, frame_available, frames_dropped, frames_received,
                 prodVars, takeVars, stats, histVars, appVars>>

\* if self._frame is not None and not self._frame_available.is_set():
DropCondition == frame # None /\ ~frame_available

\* Mutant of UpdateBody: a pending frame is kept and the new one discarded.
UpdateBodyKeepOldest ==
  /\ pc["sdk"] = "upd_body"
  /\ frames_dropped' = IF DropCondition THEN frames_dropped + 1 ELSE frames_dropped
  /\ frame' = IF frame_available THEN frame ELSE arg
  /\ frames_received' = frames_received + 1
  /\ frame_available' = TRUE
  /\ lock' = "free"
  /\ lastPut' = arg
  /\ arg' = None
  /\ Goto("sdk", "idle")
  /\ UNCHANGED <<nextFrame, takeVars, stats, lastTaken, takes, takeCalled,
                 callPending, callRecv, wakeRecv, appVars>>

\* Lines 33-38 under the lock, and the release at the end of the with block.
UpdateBody ==
  /\ pc["sdk"] = "upd_body"
  /\ frames_dropped' = IF DropCondition THEN frames_dropped + 1 ELSE frames_dropped
  /\ frame' = arg
  /\ frames_received' = frames_received + 1
  /\ frame_available' = TRUE
  /\ lock' = "free"
  /\ lastPut' = arg
  /\ arg' = None
  /\ Goto("sdk", "idle")
  /\ UNCHANGED <<nextFrame, takeVars, stats, lastTaken, takes, takeCalled,
                 callPending, callRecv, wakeRecv, appVars>>

(***************************************************************************)
(* FramePipeline.get_latest(timeout), on the consumer thread               *)
(***************************************************************************)
\* Mutant of GetLatestCall: the lock is taken before the wait and held across it.
GetLatestCallLocked(T) ==
  /\ lock = "free"
  /\ lock' = "proc"
  /\ takeTimeout' = T
  /\ waited' = 0
  /\ taken' = None
  /\ takeCalled' = TRUE
  /\ callPending' = Pending
  /\ callRecv' = frames_received
  /\ Goto("proc", "gl_wait")
  /\ UNCHANGED <<frame, frame_available, frames_dropped, frames_received,
                 prodVars, stats, lastPut, lastTaken, takes, wakeRecv, appVars>>

\* The call: get_latest(timeout=T).
GetLatestCall(T) ==
  /\ takeTimeout' = T
  /\ waited' = 0
  /\ taken' = None
  /\ takeCalled' = TRUE
  /\ callPending' = Pending
  /\ callRecv' = frames_received
  /\ Goto("proc", "gl_wait")
  /\ UNCHANGED <<pipeVars, prodVars, stats, lastPut, lastTaken, takes, wakeRecv, appVars>>

\* Mutant of WaitTimeout: the parameter is ignored and the default used.
WaitTimeoutIgnored == DefaultTimeout

\* self._frame_available.wait(timeout=timeout): the timeout handed to wait.
WaitTimeout == takeTimeout

\* A wait() that returns True although the flag is clear.
GetLatestWakeSpurious ==
  /\ pc["proc"] = "gl_wait"
  /\ wakeRecv' = frames_received
  /\ Goto("proc", "gl_lock")
  /\ UNCHANGED <<pipeVars, prodVars, takeVars, stats, lastPut, lastTaken, takes,
                 takeCalled, callPending, callRecv, appVars>>

\* wait() returns True: the flag is set. No lock is held here.
GetLatestWake ==
  /\ pc["proc"] = "gl_wait"
  /\ frame_available
  /\ wakeRecv' = frames_received
  /\ Goto("proc", "gl_lock")
  /\ UNCHANGED <<pipeVars, prodVars, takeVars, stats, lastPut, lastTaken, takes,
                 takeCalled, callPending, callRecv, appVars>>

\* Time passes while wait() is blocked on a clear flag, up to the timeout.
WaitTick ==
  /\ pc["proc"] = "gl_wait"
  /\ ~frame_available
  /\ waited < WaitTimeout
  /\ waited' = waited + 1
  /\ UNCHANGED <<pc, pipeVars, prodVars, takeTimeout, taken, stats, histVars, appVars>>

\* A wait() without a timeout: it never returns False.
GetLatestNoTimeout ==
  /\ FALSE
  /\ UNCHANGED vars

\* wait() returns False at the timeout: return None.
GetLatestTimeout ==
  /\ pc["proc"] = "gl_wait"
  /\ ~frame_available
  /\ waited >= WaitTimeout
  /\ taken' = None
  /\ Goto("proc", "gl_ret")
  /\ UNCHANGED <<pipeVars, prodVars, takeTimeout, waited, stats, histVars, appVars>>

\* with self._lock:
GetLatestAcquire ==
  /\ pc["proc"] = "gl_lock"
  /\ lock = "free"
  /\ lock' = "proc"
  /\ Goto("proc", "gl_body")
  /\ UNCHANGED <<frame, frame_available, frames_dropped, frames_received,
                 prodVars, takeVars, stats, histVars, appVars>>

\* Mutant of GetLatestBody: the flag is not cleared.
GetLatestBodyNoClear ==
  /\ pc["proc"] = "gl_body"
  /\ taken' = frame
  /\ frame_available' = frame_available
  /\ lock' = "free"
  /\ lastTaken' = IF frame # None THEN frame ELSE lastTaken
  /\ takes' = IF frame # None THEN takes + 1 ELSE takes
  /\ Goto("proc", "gl_ret")
  /\ UNCHANGED <<frame, frames_dropped, frames_received, prodVars, takeTimeout,
                 waited, stats, lastPut, takeCalled, callPending, callRecv, wakeRecv, appVars>>

\* frame = self._frame; self._frame_available.clear(); release; return frame.
GetLatestBody ==
  /\ pc["proc"] = "gl_body"
  /\ taken' = frame
  /\ frame_available' = FALSE
  /\ lock' = "free"
  /\ lastTaken' = IF frame # None THEN frame ELSE lastTaken
  /\ takes' = IF frame # None THEN takes + 1 ELSE takes
  /\ Goto("proc", "gl_ret")
  /\ UNCHANGED <<frame, frames_dropped, frames_received, prodVars, takeTimeout,
                 waited, stats, lastPut, takeCalled, callPending, callRecv, wakeRecv, appVars>>

(***************************************************************************)
(* FramePipeline.get_stats(), on thread t                                  *)
(***************************************************************************)
\* Mutant of DropRate: the division without max(..., 1).
DropRateNoMax(dropped, received) == [num |-> dropped, den |-> received]

\* self._frames_dropped / max(self._frames_received, 1), kept as a fraction.
DropRate(dropped, received) == [num |-> dropped, den |-> Max(received, 1)]

GetStatsCall(t) == Goto(t, "gs_lock")

\* Mutant of GetStatsAcquire: the counters are read without the lock.
GetStatsAcquireNoLock(t) ==
  /\ pc[t] = "gs_lock"
  /\ Goto(t, "gs_recv")
  /\ UNCHANGED <<pipeVars, prodVars, takeVars, stats, histVars, appVars>>

\* with self._lock:
GetStatsAcquire(t) ==
  /\ pc[t] = "gs_lock"
  /\ lock = "free"
  /\ lock' = t
  /\ Goto(t, "gs_recv")
  /\ UNCHANGED <<frame, frame_available, frames_dropped, frames_received,
                 prodVars, takeVars, stats, histVars, appVars>>

\* "frames_received": self._frames_received,
GetStatsReadReceived(t) ==
  /\ pc[t] = "gs_recv"
  /\ stats' = [stats EXCEPT ![t].frames_received = frames_received]
  /\ Goto(t, "gs_drop")
  /\ UNCHANGED <<pipeVars, prodVars, takeVars, histVars, appVars>>

\* "frames_dropped": self._frames_dropped,
GetStatsReadDropped(t) ==
  /\ pc[t] = "gs_drop"
  /\ stats' = [stats EXCEPT ![t].frames_dropped = frames_dropped]
  /\ Goto(t, "gs_rate")
  /\ UNCHANGED <<pipeVars, prodVars, takeVars, histVars, appVars>>

\* "drop_rate": self._frames_dropped / max(self._frames_received, 1)
GetStatsReadRate(t) ==
  /\ pc[t] = "gs_rate"
  /\ stats' = [stats EXCEPT ![t].drop_rate = DropRate(frames_dropped, frames_received)]
  /\ Goto(t, "gs_unlock")
  /\ UNCHANGED <<pipeVars, prodVars, takeVars, histVars, appVars>>

\* The return leaves the with block: the lock is released, the dict returned.
GetStatsRelease(t) ==
  /\ pc[t] = "gs_unlock"
  /\ lock' = "free"
  /\ Goto(t, "gs_ret")
  /\ UNCHANGED <<frame, frame_available, frames_dropped, frames_received,
                 prodVars, takeVars, stats, histVars, appVars>>

(***************************************************************************)
(* ThermalCamera.__init__ and the start of main()                          *)
(***************************************************************************)
CameraInit ==
  /\ manager = "none"
  /\ camera = None
  /\ session = [h \in Handles |-> "new"]
  /\ device = None
  /\ nextHandle = 1
  /\ evCamera = None
  /\ sdkRaised = FALSE

MainInit ==
  /\ stop_event = FALSE
  /\ interrupted = FALSE
  /\ warned = FALSE
  /\ sessionStops = [h \in Handles |-> 0]
  /\ destroys = 0
  /\ stopCalls = 0
  /\ cleanups = 0
  /\ shutdownLog = <<>>

(***************************************************************************)
(* The exchange driven through its public methods                          *)
(***************************************************************************)
ApiPut ==
  /\ pc["sdk"] = "idle"
  /\ UpdateCall
  /\ UNCHANGED <<pipeVars, takeVars, stats, histVars, appVars>>

ApiTake ==
  /\ pc["proc"] = "idle"
  /\ \E T \in Timeouts : GetLatestCall(T)

ApiTakeReturn ==
  /\ pc["proc"] = "gl_ret"
  /\ taken' = None
  /\ TakeForgotten
  /\ Goto("proc", "idle")
  /\ UNCHANGED <<pipeVars, prodVars, stats, lastPut, lastTaken, takes, takeCalled,
                 appVars>>

ApiStats(t) ==
  /\ pc[t] = "idle"
  /\ GetStatsCall(t)
  /\ UNCHANGED <<pipeVars, prodVars, takeVars, stats, histVars, appVars>>

ApiStatsReturn(t) ==
  /\ pc[t] = "gs_ret"
  /\ stats' = [stats EXCEPT ![t] = StatsZero]
  /\ Goto(t, "idle")
  /\ UNCHANGED <<pipeVars, prodVars, takeVars, histVars, appVars>>

ExchangeInit ==
  /\ PipelineInit
  /\ CameraInit
  /\ MainInit
  /\ pc = [t \in Threads |-> "idle"]

ExchangeNext ==
  \/ ApiPut
  \/ UpdateAcquire
  \/ UpdateBody
  \/ ApiTake
  \/ GetLatestWake
  \/ WaitTick
  \/ GetLatestTimeout
  \/ GetLatestAcquire
  \/ GetLatestBody
  \/ ApiTakeReturn
  \/ \E t \in StatsCallers : ApiStats(t)
  \/ \E t \in StatsCallers : GetStatsAcquire(t)
  \/ \E t \in StatsCallers : GetStatsReadReceived(t)
  \/ \E t \in StatsCallers : GetStatsReadDropped(t)
  \/ \E t \in StatsCallers : GetStatsReadRate(t)
  \/ \E t \in StatsCallers : GetStatsRelease(t)
  \/ \E t \in StatsCallers : ApiStatsReturn(t)

ExchangeSpec == ExchangeInit /\ [][ExchangeNext]_vars


(***************************************************************************)
(* ThermalCamera: the callbacks, on the SDK's thread                       *)
(***************************************************************************)
exchVars == <<pipeVars, prodVars, takeVars, stats, histVars>>

\* The SDK reports a connect event with a new session handle.
SdkConnect ==
  /\ pc["sdk"] = "idle"
  /\ manager = "live"
  /\ device = None
  /\ nextHandle <= MaxConnects
  /\ device' = nextHandle
  /\ evCamera' = nextHandle
  /\ nextHandle' = nextHandle + 1
  /\ Goto("sdk", "ev_connect")
  /\ UNCHANGED <<exchVars, manager, camera, session, sdkRaised, mainVars, logVars>>

\* _on_event, CONNECT: self._camera = camera
OnConnectAssign ==
  /\ pc["sdk"] = "ev_connect"
  /\ camera' = evCamera
  /\ Goto("sdk", "ev_start")
  /\ UNCHANGED <<exchVars, manager, session, device, nextHandle, evCamera,
                 sdkRaised, mainVars, logVars>>

\* camera.register_frame_available_callback(_on_frame);
\* camera.capture_session_start(...)
OnConnectStart ==
  /\ pc["sdk"] = "ev_start"
  /\ session' = [session EXCEPT ![evCamera] = "capturing"]
  /\ evCamera' = None
  /\ Goto("sdk", "idle")
  /\ UNCHANGED <<exchVars, manager, camera, device, nextHandle, sdkRaised, mainVars, logVars>>

\* The SDK reports a disconnect event: for the connected device, or with no
\* device connected (the branch's `if self._camera:` is there for that).
SdkDisconnect ==
  /\ pc["sdk"] = "idle"
  /\ manager = "live"
  /\ device' = None
  /\ Goto("sdk", "ev_disc")
  /\ UNCHANGED <<exchVars, manager, camera, session, nextHandle, evCamera,
                 sdkRaised, mainVars, logVars>>

\* _on_event, DISCONNECT: if self._camera:
OnDisconnectCheck ==
  /\ pc["sdk"] = "ev_disc"
  /\ Goto("sdk", IF camera # None THEN "ev_disc_stop" ELSE "idle")
  /\ UNCHANGED <<exchVars, appVars>>

\* self._camera.capture_session_stop()
OnDisconnectStop ==
  /\ pc["sdk"] = "ev_disc_stop"
  /\ IF camera # None
       THEN /\ session' = [session EXCEPT ![camera] = "stopped"]
            /\ sessionStops' = [sessionStops EXCEPT ![camera] = @ + 1]
            /\ Goto("sdk", "ev_disc_null")
            /\ UNCHANGED sdkRaised
       ELSE /\ sdkRaised' = TRUE
            /\ Goto("sdk", "idle")
            /\ UNCHANGED <<session, sessionStops>>
  /\ UNCHANGED <<exchVars, manager, camera, device, nextHandle, evCamera, mainVars,
                 destroys, stopCalls, cleanups, shutdownLog>>

\* A disconnect branch that stops the session and keeps the handle.
OnDisconnectKeepsHandle ==
  /\ pc["sdk"] = "ev_disc_null"
  /\ Goto("sdk", "idle")
  /\ UNCHANGED <<exchVars, appVars>>

\* self._camera = None
OnDisconnectNull ==
  /\ pc["sdk"] = "ev_disc_null"
  /\ camera' = None
  /\ Goto("sdk", "idle")
  /\ UNCHANGED <<exchVars, manager, session, device, nextHandle, evCamera,
                 sdkRaised, mainVars, logVars>>

\* _on_event, ERROR: raise RuntimeError(event_status), inside the SDK's thread.
OnError ==
  /\ pc["sdk"] = "idle"
  /\ manager = "live"
  /\ ~sdkRaised
  /\ sdkRaised' = TRUE
  /\ UNCHANGED <<pc, exchVars, manager, camera, session, device, nextHandle,
                 evCamera, mainVars, logVars>>

\* A frame callback that returns without calling the sink.
OnFrameDropping ==
  /\ pc["sdk"] = "idle"
  /\ manager = "live"
  /\ device # None
  /\ session[device] = "capturing"
  /\ nextFrame <= MaxFrames
  /\ nextFrame' = nextFrame + 1
  /\ UNCHANGED <<pc, arg, pipeVars, takeVars, stats, histVars, appVars>>

\* The SDK delivers a frame of the running capture session: _on_frame,
\* _on_frame_impl (the callback is pipeline.update, never None), update(frame).
OnFrame ==
  /\ pc["sdk"] = "idle"
  /\ manager = "live"
  /\ device # None
  /\ session[device] = "capturing"
  /\ UpdateCall
  /\ UNCHANGED <<pipeVars, takeVars, stats, histVars, appVars>>

(***************************************************************************)
(* processing_loop, on the processing thread                               *)
(***************************************************************************)
\* while not stop_event.is_set(): frame = pipeline.get_latest(timeout=0.5)
LoopTake ==
  /\ pc["proc"] = "loop_top"
  /\ ~stop_event
  /\ GetLatestCall(DefaultTimeout)

\* The loop condition fails: go to the cleanup.
LoopExit ==
  /\ pc["proc"] = "loop_top"
  /\ stop_event
  /\ Goto("proc", "cleanup")
  /\ UNCHANGED <<exchVars, appVars>>

\* if frame is not None: ... else: pass
LoopBranch ==
  /\ pc["proc"] = "gl_ret"
  /\ TakeForgotten
  /\ Goto("proc", IF taken # None THEN "process" ELSE "loop_top")
  /\ UNCHANGED <<pipeVars, prodVars, taken, stats, lastPut, lastTaken, takes,
                 takeCalled, appVars>>

\* results, detections = pipeline.process(frame); record_frame; log.
\* Nothing catches an exception: it ends the thread.
Process ==
  /\ pc["proc"] = "process"
  /\ \E raised \in BOOLEAN :
       /\ Goto("proc", IF raised THEN "died" ELSE "visualize")
       /\ taken' = IF raised THEN None ELSE taken
  /\ UNCHANGED <<pipeVars, prodVars, takeTimeout, waited, stats, histVars, appVars>>

\* pipeline.visualize(results, frame_metrics) up to buffer_stats = self.get_stats()
Visualize ==
  /\ pc["proc"] = "visualize"
  /\ \E raised \in BOOLEAN :
       /\ IF raised THEN Goto("proc", "died") ELSE GetStatsCall("proc")
       /\ taken' = IF raised THEN None ELSE taken
  /\ UNCHANGED <<pipeVars, prodVars, takeTimeout, waited, stats, histVars, appVars>>

\* MetricsOverlay.draw, cv2.imshow, cv2.waitKey: the end of the iteration.
VisualizeShow ==
  /\ pc["proc"] = "gs_ret"
  /\ stats' = [stats EXCEPT !["proc"] = StatsZero]
  /\ taken' = None
  /\ Goto("proc", "loop_top")
  /\ UNCHANGED <<pipeVars, prodVars, takeTimeout, waited, histVars, appVars>>

\* pipeline.cleanup(); metrics_logger.close()
Cleanup ==
  /\ pc["proc"] = "cleanup"
  /\ cleanups' = cleanups + 1
  /\ Goto("proc", "stopped")
  /\ UNCHANGED <<exchVars, camVars, mainVars, sessionStops, destroys, stopCalls,
                 shutdownLog>>

\* The processing thread has ended (normally, or by an exception).
ProcEnded == pc["proc"] \in {"stopped", "died"}

\* The processing thread is inside the detector or the renderer.
Processing == pc["proc"] \in {"process", "visualize", "gs_lock", "gs_recv",
                              "gs_drop", "gs_rate", "gs_unlock", "gs_ret"}

(***************************************************************************)
(* main(), on the main thread                                              *)
(***************************************************************************)
\* camera.start(): the manager is created, _on_event registered.
CameraStart ==
  /\ pc["main"] = "start"
  /\ manager' = "live"
  /\ Goto("main", "spawn")
  /\ UNCHANGED <<exchVars, camera, session, device, nextHandle, evCamera,
                 sdkRaised, mainVars, logVars>>

\* processing_thread.start()
ThreadStart ==
  /\ pc["main"] = "spawn"
  /\ pc' = [pc EXCEPT !["main"] = "sleep", !["proc"] = "loop_top"]
  /\ UNCHANGED <<exchVars, appVars>>

\* time.sleep(5.0); stats = pipeline.get_stats()
MainStats ==
  /\ pc["main"] = "sleep"
  /\ GetStatsCall("main")
  /\ UNCHANGED <<exchVars, appVars>>

\* The print of the stats: back to the sleep, or the end of main after the
\* final stats.
MainStatsReturn ==
  /\ pc["main"] = "gs_ret"
  /\ stats' = [stats EXCEPT !["main"] = StatsZero]
  /\ Goto("main", IF interrupted THEN "done" ELSE "sleep")
  /\ UNCHANGED <<pipeVars, prodVars, takeVars, histVars, appVars>>

\* A shutdown path that sets the stop flag before it stops the camera.
InterruptFlagFirst ==
  /\ ~interrupted
  /\ pc["main"] \in {"sleep", "gs_lock", "gs_recv", "gs_drop", "gs_rate",
                     "gs_unlock", "gs_ret"}
  /\ interrupted' = TRUE
  /\ stop_event' = TRUE
  /\ shutdownLog' = Append(shutdownLog, "flag")
  /\ lock' = IF lock = "main" THEN "free" ELSE lock
  /\ stats' = [stats EXCEPT !["main"] = StatsZero]
  /\ Goto("main", "stop_check")
  /\ UNCHANGED <<frame, frame_available, frames_dropped, frames_received,
                 prodVars, takeVars, histVars, camVars, warned, sessionStops,
                 destroys, stopCalls, cleanups>>

\* KeyboardInterrupt inside the try block; a with block it leaves releases
\* the lock.
Interrupt ==
  /\ ~interrupted
  /\ pc["main"] \in {"sleep", "gs_lock", "gs_recv", "gs_drop", "gs_rate",
                     "gs_unlock", "gs_ret"}
  /\ interrupted' = TRUE
  /\ lock' = IF lock = "main" THEN "free" ELSE lock
  /\ stats' = [stats EXCEPT !["main"] = StatsZero]
  /\ Goto("main", "stop_check")
  /\ UNCHANGED <<frame, frame_available, frames_dropped, frames_received,
                 prodVars, takeVars, histVars, camVars, stop_event, warned, logVars>>

\* camera.stop(): if self._camera:
StopCheck ==
  /\ pc["main"] = "stop_check"
  /\ Goto("main", IF camera # None THEN "stop_session" ELSE "stop_manager")
  /\ UNCHANGED <<exchVars, appVars>>

\* self._camera.capture_session_stop(); on None the AttributeError leaves
\* main() through its except block.
StopSession ==
  /\ pc["main"] = "stop_session"
  /\ IF camera # None
       THEN /\ session' = [session EXCEPT ![camera] = "stopped"]
            /\ sessionStops' = [sessionStops EXCEPT ![camera] = @ + 1]
            /\ Goto("main", "stop_manager")
       ELSE /\ Goto("main", "crashed")
            /\ UNCHANGED <<session, sessionStops>>
  /\ UNCHANGED <<exchVars, manager, camera, device, nextHandle, evCamera,
                 sdkRaised, mainVars, destroys, stopCalls, cleanups, shutdownLog>>

\* if self._manager: self._manager.destroy(); stop() returns.
StopManager ==
  /\ pc["main"] = "stop_manager"
  /\ manager' = IF manager # "none" THEN "destroyed" ELSE manager
  /\ destroys' = IF manager # "none" THEN destroys + 1 ELSE destroys
  /\ stopCalls' = stopCalls + 1
  /\ shutdownLog' = IF interrupted THEN Append(shutdownLog, "stopped") ELSE shutdownLog
  /\ Goto("main", "set_stop")
  /\ UNCHANGED <<exchVars, camera, session, device, nextHandle, evCamera,
                 sdkRaised, mainVars, sessionStops, cleanups>>

\* stop_event.set()
SetStop ==
  /\ pc["main"] = "set_stop"
  /\ stop_event' = TRUE
  /\ shutdownLog' = Append(shutdownLog, "flag")
  /\ Goto("main", "join")
  /\ UNCHANGED <<exchVars, camVars, interrupted, warned, sessionStops, destroys,
                 stopCalls, cleanups>>

\* processing_thread.join(timeout=2.0): the thread has ended, or the timeout
\* has.
Join ==
  /\ pc["main"] = "join"
  /\ shutdownLog' = Append(shutdownLog, "joined")
  /\ Goto("main", "alive_check")
  /\ UNCHANGED <<exchVars, camVars, mainVars, sessionStops, destroys, stopCalls,
                 cleanups>>

\* if processing_thread.is_alive(): print warning; then the final get_stats().
AliveCheck ==
  /\ pc["main"] = "alive_check"
  /\ warned' = ~ProcEnded
  /\ shutdownLog' = shutdownLog \o (IF ProcEnded THEN <<>> ELSE <<"warned">>) \o <<"stats">>
  /\ GetStatsCall("main")
  /\ UNCHANGED <<exchVars, camVars, stop_event, interrupted, sessionStops,
                 destroys, stopCalls, cleanups>>

\* threading.Thread(..., daemon=False): the thread is not a daemon.
Daemon == FALSE

\* main() has returned, or an exception has left it: the interpreter joins
\* every thread that is not a daemon, and then the process exits.
ProcessExit ==
  /\ pc["main"] \in {"done", "crashed"}
  /\ Daemon \/ ProcEnded
  /\ Goto("main", "exited")
  /\ UNCHANGED <<exchVars, appVars>>

Init ==
  /\ PipelineInit
  /\ CameraInit
  /\ MainInit
  /\ pc = [t \in Threads |->
             IF t = "main" THEN "start" ELSE IF t = "proc" THEN "not_started" ELSE "idle"]

Next ==
  \/ SdkConnect
  \/ OnConnectAssign
  \/ OnConnectStart
  \/ SdkDisconnect
  \/ OnDisconnectCheck
  \/ OnDisconnectStop
  \/ OnDisconnectNull
  \/ OnError
  \/ OnFrame
  \/ UpdateAcquire
  \/ UpdateBody
  \/ LoopTake
  \/ LoopExit
  \/ GetLatestWake
  \/ WaitTick
  \/ GetLatestTimeout
  \/ GetLatestAcquire
  \/ GetLatestBody
  \/ LoopBranch
  \/ Process
  \/ Visualize
  \/ VisualizeShow
  \/ Cleanup
  \/ CameraStart
  \/ ThreadStart
  \/ MainStats
  \/ MainStatsReturn
  \/ Interrupt
  \/ StopCheck
  \/ StopSession
  \/ StopManager
  \/ SetStop
  \/ Join
  \/ AliveCheck
  \/ ProcessExit
  \/ \E t \in StatsCallers : GetStatsAcquire(t)
  \/ \E t \in StatsCallers : GetStatsReadReceived(t)
  \/ \E t \in StatsCallers : GetStatsReadDropped(t)
  \/ \E t \in StatsCallers : GetStatsReadRate(t)
  \/ \E t \in StatsCallers : GetStatsRelease(t)

Spec == Init /\ [][Next]_vars

(***************************************************************************)
(* ThermalCamera driven through its API: a client that calls start() once  *)
(* and stop() any number of times, before or after start(), while the SDK  *)
(* thread delivers its events                                              *)
(***************************************************************************)
\* Most stop() calls of one client.
MaxStops == 2

\* camera.start() has returned to the client.
ApiStartReturn ==
  /\ pc["main"] = "spawn"
  /\ Goto("main", "cam_idle")
  /\ UNCHANGED <<exchVars, appVars>>

\* The client calls camera.stop(), before start() or after it.
ApiStop ==
  /\ pc["main"] \in {"start", "cam_idle"}
  /\ stopCalls < MaxStops
  /\ Goto("main", "stop_check")
  /\ UNCHANGED <<exchVars, appVars>>

\* camera.stop() has returned to the client.
ApiStopReturn ==
  /\ pc["main"] = "set_stop"
  /\ Goto("main", IF manager = "none" THEN "start" ELSE "cam_idle")
  /\ UNCHANGED <<exchVars, appVars>>

CameraNext ==
  \/ CameraStart
  \/ ApiStartReturn
  \/ ApiStop
  \/ StopCheck
  \/ StopSession
  \/ StopManager
  \/ ApiStopReturn
  \/ SdkConnect
  \/ OnConnectAssign
  \/ OnConnectStart
  \/ SdkDisconnect
  \/ OnDisconnectCheck
  \/ OnDisconnectStop
  \/ OnDisconnectNull
  \/ OnError
  \/ OnFrame
  \/ UpdateAcquire
  \/ UpdateBody

CameraSpec == Init /\ [][CameraNext]_vars

(***************************************************************************)
(* ThermalCamera with a sink that can fail: the same client and SDK, and a *)
(* frame_callback that raises on some frames                               *)
(***************************************************************************)
\* _on_frame, _on_frame_impl with a sink that raises on this frame:
\* self._frame_callback(frame) is in no try block, so the exception leaves
\* _on_frame_impl and the _on_frame closure, into the SDK's thread.
OnFrameSinkRaises ==
  /\ pc["sdk"] = "idle"
  /\ manager = "live"
  /\ device # None
  /\ session[device] = "capturing"
  /\ nextFrame <= MaxFrames
  /\ nextFrame' = nextFrame + 1
  /\ sdkRaised' = TRUE
  /\ UNCHANGED <<pc, arg, pipeVars, takeVars, stats, histVars, manager, camera,
                 session, device, nextHandle, evCamera, mainVars, logVars>>

SinkNext ==
  \/ CameraNext
  \/ OnFrameSinkRaises

SinkSpec == Init /\ [][SinkNext]_vars

(***************************************************************************)
(* Properties of the frame exchange (checked under ExchangeSpec)           *)
(***************************************************************************)

\* C1: after N >= 1 calls of update with no get_latest at all, frames_received
\* is N, frames_dropped is N - 1, one frame (the last put) is in the slot, and
\* get_stats reports these values (drop_rate 1/2 for N = 2).
C1_PutsWithoutTake ==
  (~takeCalled /\ pc["sdk"] = "idle" /\ frames_received >= 1) =>
    /\ frames_dropped = frames_received - 1
    /\ frame = lastPut
    /\ \A t \in StatsCallers : pc[t] = "gs_unlock" =>
         /\ stats[t].frames_received = frames_received
         /\ stats[t].frames_dropped = frames_received - 1
         /\ frames_received = 2 => 2 * stats[t].drop_rate.num = stats[t].drop_rate.den

\* C2: every put increments frames_received by one and leaves the flag set,
\* and increments frames_dropped by one exactly when the previously put frame
\* is still pending (not returned by a take); otherwise frames_dropped is
\* unchanged.
C2_DropIffPending ==
  [][frames_received' # frames_received =>
       /\ frames_received' = frames_received + 1
       /\ frame_available'
       /\ frames_dropped' = IF Pending THEN frames_dropped + 1 ELSE frames_dropped]_vars

\* C3: frames_received >= frames_dropped >= 0 in every state, and the
\* drop_rate of every dict get_stats builds is dropped / max(received, 1)
\* of that dict's own counters, a fraction in [0, 1].
C3_CountersAndRate ==
  /\ frames_received >= frames_dropped
  /\ frames_dropped >= 0
  /\ \A t \in StatsCallers : pc[t] \in {"gs_unlock", "gs_ret"} =>
       /\ stats[t].drop_rate.num = stats[t].frames_dropped
       /\ stats[t].drop_rate.den = Max(stats[t].frames_received, 1)
       /\ stats[t].drop_rate.den >= 1
       /\ 0 <= stats[t].drop_rate.num
       /\ stats[t].drop_rate.num <= stats[t].drop_rate.den

\* C3 witness: get_stats has returned a dict with one drop among two frames.
C3_Witness ==
  \E t \in StatsCallers :
    /\ pc[t] = "gs_ret"
    /\ stats[t].frames_received = 2
    /\ stats[t].frames_dropped = 1

\* C4: a take called with a put frame pending, and no other put before it
\* returns, returns that frame and leaves the flag clear; a take called after
\* the last put frame was already taken, with no put in between, returns None
\* (with timeout 0: without waiting).
C4_PutTakeTake ==
  (pc["proc"] = "gl_ret" /\ frames_received = callRecv) =>
    /\ callPending => (taken = lastPut /\ taken # None /\ ~frame_available)
    /\ (~callPending /\ lastPut # None) =>
         (taken = None /\ (takeTimeout = 0 => waited = 0))

\* C4 witness: the second take, with timeout 0, has returned None after the
\* first take returned the only frame put.
C4_Witness ==
  /\ pc["proc"] = "gl_ret"
  /\ takeTimeout = 0
  /\ taken = None
  /\ takes = 1
  /\ lastTaken = lastPut
  /\ frames_received = 1
  /\ callRecv = 1

\* C5: the frame a take reads from the slot is the frame of the most recent
\* completed put, never an older one.
C5_KeepNewest ==
  [][(pc["proc"] = "gl_body" /\ pc'["proc"] = "gl_ret") =>
       (taken' = lastPut /\ taken' # None)]_vars

\* C5 witness: the consumer woke when only frame 1 had been put, frame 2 was
\* put before it read the slot, and the take returned frame 2.
C5_Witness ==
  /\ pc["proc"] = "gl_ret"
  /\ wakeRecv = 1
  /\ taken = 2
  /\ takes = 1

\* C6: a take never waits longer than its timeout; it returns None only when
\* the whole timeout has elapsed; and a take called with no frame pending
\* (none ever put, or the last one already taken), during which no put
\* completes, returns None.
C6_TakeTimesOut ==
  /\ waited <= takeTimeout
  /\ (pc["proc"] = "gl_ret" /\ taken = None) => waited = takeTimeout
  /\ (pc["proc"] = "gl_ret" /\ ~callPending /\ frames_received = callRecv) =>
       (taken = None /\ waited = takeTimeout)

\* C6 witness: no put ever happened and a take with the default timeout has
\* returned None after the whole timeout.
C6_Witness ==
  /\ pc["proc"] = "gl_ret"
  /\ frames_received = 0
  /\ pc["sdk"] = "idle"
  /\ takeTimeout = DefaultTimeout
  /\ waited = DefaultTimeout
  /\ taken = None

\* A step of the thread that holds the lock, inside its with block.
LockHolderStep ==
  \/ (lock = "sdk" /\ UpdateBody)
  \/ (lock = "proc" /\ GetLatestBody)
  \/ \E t \in StatsCallers :
       /\ lock = t
       /\ \/ GetStatsReadReceived(t)
          \/ GetStatsReadDropped(t)
          \/ GetStatsReadRate(t)
          \/ GetStatsRelease(t)

\* C7: the lock is never held by the consumer while it waits for the flag,
\* whoever holds the lock can take its next step inside the with block
\* without waiting for anything, and update gets the lock whenever it is
\* free: a started put completes without a take.
C7_PutNeverBlocksOnConsumer ==
  /\ pc["proc"] = "gl_wait" => lock # "proc"
  /\ lock # "free" => ENABLED LockHolderStep
  /\ (pc["sdk"] = "upd_lock" /\ lock = "free") => ENABLED UpdateAcquire
  /\ pc["sdk"] = "upd_body" => lock = "sdk"

\* C7 witness: update is inside its with block while the consumer is blocked
\* in wait on a clear flag.
C7_Witness ==
  /\ pc["sdk"] = "upd_body"
  /\ pc["proc"] = "gl_wait"
  /\ ~frame_available
  /\ waited = 1

\* C8: when get_stats has built its dict and still holds the lock, the three
\* values are those of the counters at that one instant.
C8_StatsSnapshot ==
  \A t \in StatsCallers : pc[t] = "gs_unlock" =>
    /\ stats[t].frames_received = frames_received
    /\ stats[t].frames_dropped = frames_dropped
    /\ stats[t].drop_rate = [num |-> frames_dropped, den |-> Max(frames_received, 1)]

\* C8 witness: get_stats has built its dict while an update is waiting for
\* the lock.
C8_Witness ==
  /\ pc["main"] = "gs_unlock"
  /\ pc["sdk"] = "upd_lock"
  /\ stats["main"].frames_received = 2
  /\ stats["main"].frames_dropped = 1

\* C9: after get_latest has returned frame f and before the next update, the
\* slot does not reference f.
C9_SlotReleased ==
  (pc["proc"] = "gl_ret" /\ taken # None /\ lastPut = taken) => frame # taken

(***************************************************************************)
(* Properties of the application (checked under Spec)                      *)
(***************************************************************************)

\* C10: once camera.stop() has returned in the shutdown path (the manager is
\* destroyed), the processing thread is not inside the detector or the
\* renderer.
C10_NoProcessingAfterTeardown ==
  (interrupted /\ manager = "destroyed") => ~Processing

\* C11: after ThermalCamera.stop() has returned (its last statement, the
\* manager's destroy(), has run) no update executes: frames_received is never
\* incremented again, whatever callback was in flight when stop() ran.
C11_NoSinkCallAfterStop ==
  [][manager = "destroyed" => frames_received' = frames_received]_vars

\* C12: stop() called before start(), or called again after a stop(), is a
\* no-op: before start() nothing is released, and over any number of stop()
\* calls the manager is destroyed at most once and the capture session of the
\* held handle is stopped at most once.
C12_StopIdempotent ==
  /\ manager = "none" => destroys = 0
  /\ destroys <= 1
  /\ \A h \in Handles : (camera = h /\ pc["sdk"] = "idle") => sessionStops[h] <= 1

\* C13: an SDK error event is terminal for the session and reaches the
\* orchestrator: after it no connect event is handled, no frame is forwarded
\* to the sink, the processing loop starts no further take and main starts no
\* further monitoring round as if nothing had happened.
C13_ErrorSurfaced ==
  [][sdkRaised =>
       /\ nextHandle' = nextHandle
       /\ nextFrame' = nextFrame
       /\ ~(pc["proc"] = "loop_top" /\ pc'["proc"] = "gl_wait")
       /\ ~(pc["main"] = "sleep" /\ pc'["main"] = "gs_lock")]_vars

\* C14: an exception of the detector or the renderer does not end the
\* processing loop: the loop is left only once the stop signal is set.
C14_LoopSurvivesException ==
  pc["proc"] \in {"died", "cleanup", "stopped"} => stop_event

\* C15: over every sequence of connect, frame and disconnect events, every
\* frame the SDK delivers while connected is passed to the sink exactly once
\* and in delivery order (the k-th call of the sink carries the k-th frame
\* delivered), and while a handle's session is capturing the handle held is
\* the one of the latest connect event.
C15_FramesForwardedInOrder ==
  /\ lastPut = frames_received
  /\ pc["sdk"] \in {"upd_lock", "upd_body"} => arg = frames_received + 1
  /\ nextFrame = frames_received + 1
                   + (IF pc["sdk"] \in {"upd_lock", "upd_body"} THEN 1 ELSE 0)
  /\ pc["sdk"] = "ev_start" => (camera = evCamera /\ camera = device)
  /\ (device # None /\ session[device] = "capturing") => camera = device

\* connect, frame, frame, disconnect, connect, frame: three frames have
\* reached the sink, the first session was stopped once and the handle of the
\* second connect is held and capturing.
C15_Witness ==
  /\ pc["sdk"] = "idle"
  /\ frames_received = 3
  /\ lastPut = 3
  /\ sessionStops[1] = 1
  /\ session[1] = "stopped"
  /\ device = 2
  /\ camera = 2
  /\ session[2] = "capturing"

\* C16: stop() is safe against a concurrent event callback: stop() never
\* dereferences the handle after the disconnect branch has nulled it, and the
\* capture session of one handle is stopped at most once.
C16_StopSafeAgainstCallback ==
  /\ pc["main"] # "crashed"
  /\ \A h \in Handles : sessionStops[h] <= 1

\* C17: stop() releases the handle before it releases the manager, so once
\* the manager has been destroyed the component holds no session handle.
C17_NoHandleAfterStop ==
  destroys >= 1 => camera = None

\* The steps of main's shutdown path in program order; w: the thread was
\* still alive after the join.
ShutdownOrder(w) ==
  <<"stopped", "flag", "joined">> \o (IF w THEN <<"warned">> ELSE <<>>) \o <<"stats">>

\* C18: on every shutdown the steps run in this order: camera.stop() returns,
\* then the stop flag is set, then the processing thread is joined, then the
\* warning is printed if the thread is still alive, and the final stats are
\* read only after the join has returned. The flag is set only once stop()
\* has destroyed the manager, and the warning is printed only after the join.
C18_ShutdownOrder ==
  /\ \E w \in BOOLEAN : \E n \in 0..Len(ShutdownOrder(w)) :
        shutdownLog = SubSeq(ShutdownOrder(w), 1, n)
  /\ stop_event => (stopCalls = 1 /\ manager = "destroyed")
  /\ stop_event <=> (Len(shutdownLog) >= 2)
  /\ warned => (Len(shutdownLog) = 5 /\ shutdownLog[3] = "joined")
  /\ (interrupted /\ pc["main"] \in {"gs_lock", "gs_recv", "gs_drop", "gs_rate",
                                      "gs_unlock", "gs_ret", "done"})
       => (stop_event /\ Len(shutdownLog) >= 4 /\ shutdownLog[3] = "joined")

\* A shutdown that ran to its end with the processing thread still alive at
\* the join's timeout: all five steps are in the log.
C18_Witness ==
  /\ pc["main"] = "done"
  /\ warned
  /\ shutdownLog = ShutdownOrder(TRUE)

\* The steps of the processing thread: processing_loop and the pipeline
\* calls it makes.
ProcNext ==
  \/ LoopTake
  \/ LoopExit
  \/ GetLatestWake
  \/ WaitTick
  \/ GetLatestTimeout
  \/ GetLatestAcquire
  \/ GetLatestBody
  \/ LoopBranch
  \/ Process
  \/ Visualize
  \/ GetStatsAcquire("proc")
  \/ GetStatsReadReceived("proc")
  \/ GetStatsReadDropped("proc")
  \/ GetStatsReadRate("proc")
  \/ GetStatsRelease("proc")
  \/ VisualizeShow
  \/ Cleanup

\* The application with a fair scheduler: the processing thread is scheduled
\* whenever it can take a step (the clock of a blocked wait() included, and
\* the detector and renderer calls return or raise), and a thread inside a
\* with block on the pipeline's lock goes on to release it. Events of the
\* SDK and the KeyboardInterrupt are not forced.
FairSpec == Spec /\ WF_vars(ProcNext) /\ WF_vars(LockHolderStep)

\* C19: once the stop flag is set the processing loop ends: the flag is
\* tested at the top of every iteration, so no take is started once it is
\* set, the take in progress returns within its timeout, and the thread
\* leaves the loop.
C19_LoopExitsAfterStop ==
  /\ [][stop_event => ~(pc["proc"] = "loop_top" /\ pc'["proc"] = "gl_wait")]_vars
  /\ stop_event ~> ProcEnded

\* The thread was still running when the join timed out (the warning was
\* printed) and has left the loop through the flag since.
C19_Witness ==
  /\ stop_event
  /\ warned
  /\ pc["proc"] = "stopped"

\* C20: on every exit of the processing loop, an exception of the detector or
\* the renderer included, pipeline.cleanup() has run exactly once when the
\* processing thread has ended.
C20_CleanupOnEveryExit ==
  /\ cleanups <= 1
  /\ ProcEnded => cleanups = 1

\* C21: when the processing thread has not finished within the join's
\* timeout, the warning is printed and the process still exits: once main has
\* finished after the warning, the process can exit whether or not the
\* processing thread is still running.
C21_ExitDespiteRunningThread ==
  (pc["main"] = "done" /\ warned) => ENABLED ProcessExit

C23_SinkFailureContained ==
  [][nextFrame' # nextFrame =>
       (sdkRaised' = sdkRaised /\ camera' = camera /\ session' = session)]_vars

(***************************************************************************)
(* Further properties of the exchange (checked under ExchangeSpec)         *)
(***************************************************************************)

\* C24: whenever no operation is inside its with block (the lock is free),
\* frames_received = takes that returned a frame + frames_dropped + (1 if a
\* frame is available, else 0).
C24_FrameAccounting ==
  lock = "free" =>
    frames_received = takes + frames_dropped + (IF frame_available THEN 1 ELSE 0)

\* The steps of a get_latest call after its caller has made it.
TakeStep ==
  \/ GetLatestWake
  \/ WaitTick
  \/ GetLatestTimeout
  \/ GetLatestBody
  \/ ApiTakeReturn

\* The steps of a get_stats call of the consumer thread outside the lock.
ConsumerStatsStep ==
  \/ GetStatsRelease("proc")
  \/ ApiStatsReturn("proc")

\* The exchange with a consumer that keeps calling get_latest and a fair
\* scheduler: the consumer calls get_latest again and again (strong fairness
\* of the call), a call in progress goes on (the clock of a blocked wait()
\* included), a thread waiting for the lock gets it when the lock is freed
\* again and again, and a thread inside a with block goes on to release the
\* lock. Puts and the other threads' get_stats calls are not forced.
FairExchangeSpec ==
  /\ ExchangeSpec
  /\ SF_vars(ApiTake)
  /\ WF_vars(TakeStep)
  /\ SF_vars(GetLatestAcquire)
  /\ SF_vars(GetStatsAcquire("proc"))
  /\ WF_vars(ConsumerStatsStep)
  /\ WF_vars(LockHolderStep)

====
